---- MODULE Spec2Model ----
(***************************************************************************)
(* A model of the caching reverse proxy of src/cloudflare_cache.js (and    *)
(* its near-duplicate src/unnamed/part_000): cache-key derivation, the     *)
(* R2 lookup, the forward to the origin, the storage decision and the      *)
(* background put/delete handed to ctx.waitUntil.                          *)
(*                                                                         *)
(* Strings are TLA+ strings; header maps are functions from lower-cased    *)
(* header names to values; an optional value (null/undefined in the code)  *)
(* is the empty tuple <<>> and a present value v is <<v>>.                 *)
(***************************************************************************)
EXTENDS Integers, Sequences, FiniteSets, TLC

\* ------------------------------------------------------------------ bounds

\* Number of requests the worker handles (concurrently or one after another).
NumReq == 2
\* The clock advances TickMs at a time, MaxTicks times at most.
MaxTicks == 3

\* ------------------------------------------------------- program constants

DEFAULT_CACHE_TTL_SECONDS == 2048000
CACHE_CONTROL_HEADER == "cf-cache-control"
\* ttl * 1000: milliseconds in a second.
MsPerSecond == 1000

\* ---------------------------------------------------------- string library

Null == <<>>
Some(v) == <<v>>

CharAt(s, i) == SubSeq(s, i, i)

\* String.prototype.toLowerCase, one character.
LowerChar(c) ==
  CASE c = "A" -> "a" [] c = "B" -> "b" [] c = "C" -> "c" [] c = "D" -> "d"
    [] c = "E" -> "e" [] c = "F" -> "f" [] c = "G" -> "g" [] c = "H" -> "h"
    [] c = "I" -> "i" [] c = "J" -> "j" [] c = "K" -> "k" [] c = "L" -> "l"
    [] c = "M" -> "m" [] c = "N" -> "n" [] c = "O" -> "o" [] c = "P" -> "p"
    [] c = "Q" -> "q" [] c = "R" -> "r" [] c = "S" -> "s" [] c = "T" -> "t"
    [] c = "U" -> "u" [] c = "V" -> "v" [] c = "W" -> "w" [] c = "X" -> "x"
    [] c = "Y" -> "y" [] c = "Z" -> "z" [] OTHER -> c

RECURSIVE toLowerCase(_)
toLowerCase(s) ==
  IF Len(s) = 0 THEN ""
  ELSE LowerChar(CharAt(s, 1)) \o toLowerCase(SubSeq(s, 2, Len(s)))

\* String.prototype.includes / startsWith.
includes(s, sub) ==
  \E i \in 1..(Len(s) - Len(sub) + 1) : SubSeq(s, i, i + Len(sub) - 1) = sub

startsWith(s, p) == Len(s) >= Len(p) /\ SubSeq(s, 1, Len(p)) = p

IsDigit(c) == \E d \in 1..10 : CharAt("0123456789", d) = c
DigitVal(c) == (CHOOSE d \in 1..10 : CharAt("0123456789", d) = c) - 1
DigitChar(d) == CharAt("0123456789", d + 1)

\* Number.prototype.toString (decimal) of an integer.
RECURSIVE NatToString(_)
NatToString(n) ==
  IF n < 10 THEN DigitChar(n) ELSE NatToString(n \div 10) \o DigitChar(n % 10)

NumberToString(n) == IF n < 0 THEN "-" \o NatToString(0 - n) ELSE NatToString(n)

\* The value of the longest run of digits at the front of s, continuing acc.
RECURSIVE DigitsValue(_, _)
DigitsValue(s, acc) ==
  IF Len(s) = 0 \/ ~IsDigit(CharAt(s, 1)) THEN acc
  ELSE DigitsValue(SubSeq(s, 2, Len(s)), acc * 10 + DigitVal(CharAt(s, 1)))

RECURSIVE TrimStart(_)
TrimStart(s) ==
  IF Len(s) > 0 /\ CharAt(s, 1) = " " THEN TrimStart(SubSeq(s, 2, Len(s))) ELSE s

\* parseInt(s), radix 10: leading blanks, an optional sign, then the longest
\* run of digits; NaN (Null here) when there is no digit.
parseInt(s) ==
  LET t == TrimStart(s)
      neg == Len(t) > 0 /\ CharAt(t, 1) = "-"
      signed == Len(t) > 0 /\ (CharAt(t, 1) = "-" \/ CharAt(t, 1) = "+")
      d == IF signed THEN SubSeq(t, 2, Len(t)) ELSE t
  IN  IF Len(d) = 0 \/ ~IsDigit(CharAt(d, 1)) THEN Null
      ELSE Some(IF neg THEN 0 - DigitsValue(d, 0) ELSE DigitsValue(d, 0))

\* s.split('=')[1]: the text between the first '=' and the next one (or the
\* end); undefined (Null) when s has no '='.
splitEq1(s) ==
  LET eqs == {i \in 1..Len(s) : CharAt(s, i) = "="}
  IN  IF eqs = {} THEN Null
      ELSE LET first == CHOOSE i \in eqs : \A j \in eqs : i <= j
               later == {i \in eqs : i > first}
               stop == IF later = {} THEN Len(s) + 1
                       ELSE CHOOSE i \in later : \A j \in later : i <= j
           IN  Some(SubSeq(s, first + 1, stop - 1))

\* s.match(/max-age=(\d+)/): the first capture, Null when nothing matches.
RECURSIVE DigitRun(_)
DigitRun(s) ==
  IF Len(s) = 0 \/ ~IsDigit(CharAt(s, 1)) THEN ""
  ELSE CharAt(s, 1) \o DigitRun(SubSeq(s, 2, Len(s)))

matchMaxAge(s) ==
  LET hits == {i \in 1..Len(s) :
                 /\ i + 8 <= Len(s)
                 /\ SubSeq(s, i, i + 7) = "max-age="
                 /\ IsDigit(CharAt(s, i + 8))}
  IN  IF hits = {} THEN Null
      ELSE LET i == CHOOSE h \in hits : \A j \in hits : h <= j
           IN  Some(DigitRun(SubSeq(s, i + 8, Len(s))))

\* Headers.get(name). Header names are case-insensitive: a Headers object keeps
\* them lower-cased, and the model writes every name in lower case.
HeadersGet(h, name) == IF name \in DOMAIN h THEN Some(h[name]) ELSE Null

\* Headers.set(name, value).
HeadersSet(h, name, value) ==
  [n \in DOMAIN h \cup {name} |-> IF n = name THEN value ELSE h[n]]

\* Headers.delete(name).
HeadersDelete(h, name) == [n \in DOMAIN h \ {name} |-> h[n]]

NoHeaders == [n \in {} |-> ""]

\* ------------------------------------------------------------------ inputs

Reqs == 1..NumReq

\* The URL of an inbound request, as new URL(request.url) splits it.
UrlW == [origin |-> "https://p", pathname |-> "/w", search |-> "?id=1"]
UrlV == [origin |-> "https://p", pathname |-> "/v", search |-> ""]

\* URL.prototype.toString.
URLtoString(u) == u.origin \o u.pathname \o u.search

\* The body of a request: the bytes the client sends, and whether reading the
\* stream fails (arrayBuffer() rejects) before they are all there.
Body(bytes) == [bytes |-> bytes, errors |-> FALSE]
Errored(bytes) == [bytes |-> bytes, errors |-> TRUE]

Req(m, u, b, h) == [method |-> m, url |-> u, body |-> b, headers |-> h]

CfCc(v) == [n \in {CACHE_CONTROL_HEADER} |-> v]
Auth(v) == [n \in {"authorization"} |-> v]

\* The requests of the main specification.
Requests ==
  {Req("GET", UrlW, Body(""), h) :
     h \in {NoHeaders, CfCc("no-cache"), CfCc("No-Cache"), CfCc("force-cache"),
              CfCc("max-age=1")}}
  \cup {Req("POST", UrlW, Body("a"), NoHeaders), Req("POST", UrlW, Errored("b"), NoHeaders)}
  \cup {Req("PUT", UrlW, Body("a"), h) : h \in {NoHeaders, CfCc("force-cache")}}

\* The requests of the specification of the cache key: two URLs, three bodies
\* read with and without failure, with and without credentials.
RequestsKey ==
  {Req("GET", u, Body(""), h) : u \in {UrlW, UrlV}, h \in {NoHeaders, Auth("t")}}
  \cup {Req("POST", u, b, h) :
          u \in {UrlW, UrlV},
          b \in {Body(""), Body("a"), Body("b"), Errored(""), Errored("a"), Errored("b")},
          h \in {NoHeaders, Auth("t")}}

\* An origin response; body is Null for a null-body status.
Resp(st, h, b) == [status |-> st, statusText |-> "", headers |-> h, body |-> b]

CC(v) == [n \in {"cache-control"} |-> v]
Pragma(v) == [n \in {"pragma"} |-> v]

OriginResponses ==
  { Resp(200, CC("max-age=2"), Some("x")),
    Resp(200, NoHeaders, Some("y")),
    Resp(201, [n \in {"content-type", "cache-control"} |->
                 IF n = "content-type" THEN "text/plain" ELSE "public, max-age=2"],
         Some("hello")),
    Resp(200, CC("No-Store"), Some("x")),
    Resp(200, CC("private, no-cache"), Some("x")),
    Resp(200, Pragma("no-cache"), Some("x")),
    Resp(204, NoHeaders, Null),
    Resp(404, NoHeaders, Some("n")) }

OriginResponsesKey == {Resp(200, CC("max-age=1"), Some("y"))}

\* The message of the error a failed fetch() throws.
FetchErrors == {"connect failed"}

\* The worker's bindings.
Env(url, bucket) ==
  [ORIGIN_API_URL |-> url, API_CACHE_BUCKET |-> bucket,
   OCP_APIM_Subscription_Key |-> "k"]

Envs == {Env(Some("https://o"), TRUE), Env(Null, TRUE), Env(Some("https://o"), FALSE)}

\* The clock starts at StartMs and advances a second at a time.
StartMs == MsPerSecond
TickMs == MsPerSecond

\* ------------------------------------------------------------ the program

\* crypto.subtle.digest('SHA-256', buffer) as lower-case hex, on the bodies of
\* the model.
SHA256Hex(data) ==
  CASE data = "" -> "e3b0c44298fc1c149afbf4c8996fb92427ae41e4649b934ca495991b7852b855"
    [] data = "a" -> "ca978112ca1bbdcafac231b39a23dc4da786eff8147c4e72b9807785afee48bb"
    [] data = "b" -> "3e23e8160039594a33894f6564e1b1348bbd7a0088d42c4acb73eeaed59c009d"

generateHash(data) ==
  IF Len(data) = 0 THEN "emptybody" ELSE SHA256Hex(data)

\* Mutant: the credentials of the request enter the key.
generateCacheKey_withHeaders(request) ==
  LET key == request.method \o ":" \o URLtoString(request.url)
      auth == IF "authorization" \in DOMAIN request.headers
              THEN ":auth=" \o request.headers["authorization"] ELSE ""
  IN  IF request.method = "POST"
      THEN IF request.body.errors THEN key \o auth \o ":bodyHash=readerror"
           ELSE IF Len(request.body.bytes) > 0
                THEN key \o auth \o ":bodyHash=" \o generateHash(request.body.bytes)
                ELSE key \o auth \o ":bodyHash=emptybody"
      ELSE key \o auth

\* Mutant: the body is digested without the zero-length check.
generateCacheKey_hashEmpty(request) ==
  LET key == request.method \o ":" \o URLtoString(request.url)
  IN  IF request.method = "POST"
      THEN IF request.body.errors THEN key \o ":bodyHash=readerror"
           ELSE key \o ":bodyHash=" \o SHA256Hex(request.body.bytes)
      ELSE key

\* Mutant: the length of the body is keyed instead of its digest.
generateCacheKey_lengthOnly(request) ==
  LET key == request.method \o ":" \o URLtoString(request.url)
  IN  IF request.method = "POST"
      THEN IF request.body.errors THEN key \o ":bodyHash=readerror"
           ELSE IF Len(request.body.bytes) > 0
                THEN key \o ":bodyHash=" \o NumberToString(Len(request.body.bytes))
                ELSE key \o ":bodyHash=emptybody"
      ELSE key

generateCacheKey(request) ==
  LET key == request.method \o ":" \o URLtoString(request.url)
  IN  IF request.method = "POST"
      THEN IF request.body.errors THEN key \o ":bodyHash=readerror"
           ELSE IF Len(request.body.bytes) > 0
                THEN key \o ":bodyHash=" \o generateHash(request.body.bytes)
                ELSE key \o ":bodyHash=emptybody"
      ELSE key

\* Mutant: the directive is compared without lower-casing it.
bypassCache_caseSensitive(request) ==
  LET h == HeadersGet(request.headers, CACHE_CONTROL_HEADER)
  IN  h # Null /\ h[1] = "no-cache"

\* request.headers.get(CACHE_CONTROL_HEADER)?.toLowerCase() === 'no-cache'
bypassCache(request) ==
  LET h == HeadersGet(request.headers, CACHE_CONTROL_HEADER)
  IN  h # Null /\ toLowerCase(h[1]) = "no-cache"

forceCache(request) ==
  LET h == HeadersGet(request.headers, CACHE_CONTROL_HEADER)
  IN  h # Null /\ toLowerCase(h[1]) = "force-cache"

\* Mutant: PUT is a cacheable method too.
isCacheableMethod_withPut(request) ==
  request.method = "GET" \/ request.method = "POST" \/ request.method = "PUT"

isCacheableMethod(request) == request.method = "GET" \/ request.method = "POST"

\* The statuses for which new Response(body, ...) rejects a non-null body.
NullBodyStatus == {101, 204, 205, 304}

\* new Response(body, {status, ...}) throws.
ResponseThrows(body, status) ==
  \/ status < 200 \/ status > 599
  \/ body # Null /\ status \in NullBodyStatus

\* new Response(body, {status, statusText, headers}); a string body brings its
\* content type when the headers name none.
NewResponse(body, isString, status, statusText, headers) ==
  [status |-> status, statusText |-> statusText, body |-> body,
   headers |-> IF isString /\ body # Null /\ "content-type" \notin DOMAIN headers
               THEN HeadersSet(headers, "content-type", "text/plain;charset=UTF-8")
               ELSE headers]

\* JSON.stringify(dataToStore) and its inverse, object.json().
JSONstringify(data) == <<"JSON", data.body, data.status, data.headers>>
JSONparse(text) == [body |-> text[2], status |-> text[3], headers |-> text[4]]

\* The lower-cased value of a response header, Null when absent.
LowerHeader(resp, name) ==
  LET h == HeadersGet(resp.headers, name)
  IN  IF h = Null THEN Null ELSE Some(toLowerCase(h[1]))

\* Mutant: force-cache overrides the response's no-store / no-cache.
shouldCache_forceOverrides(request, resp) ==
  LET cacheControl == LowerHeader(resp, "cache-control")
      pragma == LowerHeader(resp, "pragma")
  IN  /\ resp.status >= 200 /\ resp.status < 300
      /\ \/ forceCache(request)
         \/ /\ isCacheableMethod(request)
            /\ \/ cacheControl = Null \/ cacheControl[1] = ""
               \/ (~includes(cacheControl[1], "no-cache")
                   /\ ~includes(cacheControl[1], "no-store"))
            /\ (pragma = Null \/ pragma[1] = "" \/ ~includes(pragma[1], "no-cache"))

\* Mutant: the status of the response is not looked at.
shouldCache_anyStatus(request, resp) ==
  LET cacheControl == LowerHeader(resp, "cache-control")
      pragma == LowerHeader(resp, "pragma")
  IN  /\ (isCacheableMethod(request) \/ forceCache(request))
      /\ \/ cacheControl = Null \/ cacheControl[1] = ""
         \/ (~includes(cacheControl[1], "no-cache") /\ ~includes(cacheControl[1], "no-store"))
      /\ (pragma = Null \/ pragma[1] = "" \/ ~includes(pragma[1], "no-cache"))

shouldCache(request, resp) ==
  LET cacheControl == LowerHeader(resp, "cache-control")
      pragma == LowerHeader(resp, "pragma")
  IN  /\ (isCacheableMethod(request) \/ forceCache(request))
      /\ resp.status >= 200 /\ resp.status < 300
      /\ \/ cacheControl = Null \/ cacheControl[1] = ""
         \/ (~includes(cacheControl[1], "no-cache") /\ ~includes(cacheControl[1], "no-store"))
      /\ (pragma = Null \/ pragma[1] = "" \/ ~includes(pragma[1], "no-cache"))

\* parseInt(x) || DEFAULT_CACHE_TTL_SECONDS
OrDefault(n) == IF n = Null \/ n[1] = 0 THEN DEFAULT_CACHE_TTL_SECONDS ELSE n[1]

computeTtl(request, resp) ==
  LET customTtlHeader == HeadersGet(request.headers, CACHE_CONTROL_HEADER)
      cacheControl == LowerHeader(resp, "cache-control")
  IN  IF customTtlHeader # Null /\ customTtlHeader[1] # ""
         /\ startsWith(customTtlHeader[1], "max-age=")
      THEN OrDefault(parseInt(splitEq1(customTtlHeader[1])[1]))
      ELSE IF cacheControl # Null /\ cacheControl[1] # ""
              /\ includes(cacheControl[1], "max-age=")
           THEN LET maxAgeMatch == matchMaxAge(cacheControl[1])
                IN  IF maxAgeMatch # Null THEN parseInt(maxAgeMatch[1])[1]
                    ELSE DEFAULT_CACHE_TTL_SECONDS
           ELSE DEFAULT_CACHE_TTL_SECONDS

\* handleRequestHeaders(env, request.headers): the headers sent to the origin.
handleRequestHeaders(e, requestHeaders) ==
  HeadersDelete(
    HeadersSet(
      HeadersSet(requestHeaders, "ocp-apim-subscription-region", "japaneast"),
      "ocp-apim-subscription-key", e.OCP_APIM_Subscription_Key),
    "host")

\* The request sent to the origin.
originRequest(e, request) ==
  [url |-> e.ORIGIN_API_URL[1] \o request.url.pathname \o request.url.search,
   method |-> request.method,
   headers |-> handleRequestHeaders(e, request.headers),
   body |-> request.body]

\* Mutant: the time is compared in seconds with an expiration in milliseconds.
isExpired_seconds(object, time) ==
  LET expiration == object.customMetadata.expiration
  IN  /\ expiration # ""
      /\ parseInt(expiration) # Null
      /\ time \div MsPerSecond > parseInt(expiration)[1]

\* expiration && new Date().getTime() > parseInt(expiration)
isExpired(object, time) ==
  LET expiration == object.customMetadata.expiration
  IN  /\ expiration # ""
      /\ parseInt(expiration) # Null
      /\ time > parseInt(expiration)[1]

\* The response of the cache-hit branch, before new Response is applied.
hitHeaders(cachedResponseData, key) ==
  HeadersSet(HeadersSet(cachedResponseData.headers, "x-cache-status", "HIT"),
             "x-cache-key", key)

\* The response of the miss branch.
missResponse(resp, key) ==
  NewResponse(resp.body, FALSE, resp.status, resp.statusText,
              HeadersSet(HeadersSet(resp.headers, "x-cache-status", "MISS"),
                         "x-cache-key", key))

\* -------------------------------------------------------------------- state

VARIABLES
  env,             \* the bindings the worker runs with
  store,           \* env.API_CACHE_BUCKET: key -> [value, customMetadata]
  now,             \* new Date().getTime()
  pending,         \* the promises handed to ctx.waitUntil, not yet settled
  pc,              \* where each request's fetch handler stands
  request,         \* the request each handler was called with
  cacheKey,        \* its cacheKey
  object,          \* the object its store get returned
  originResponse,  \* the response its origin fetch returned
  response,        \* the response the handler returned
  log              \* the store and origin operations the handler issued and the
                   \* errors it caught (console.error), in order

vars == <<env, store, now, pending, pc, request, cacheKey, object,
          originResponse, response, log>>

Op(op, key, value) == [op |-> op, key |-> key, value |-> value]

Task(r, op, key, value) == [req |-> r, op |-> op, key |-> key, value |-> value]

Init ==
  /\ env \in Envs
  /\ store = [k \in {} |-> Null]
  /\ now = StartMs
  /\ pending = {}
  /\ pc = [r \in Reqs |-> "idle"]
  /\ request = [r \in Reqs |-> Null]
  /\ cacheKey = [r \in Reqs |-> ""]
  /\ object = [r \in Reqs |-> Null]
  /\ originResponse = [r \in Reqs |-> Null]
  /\ response = [r \in Reqs |-> Null]
  /\ log = [r \in Reqs |-> <<>>]

\* ------------------------------------------------------------------ actions

\* Mutant: the binding of the bucket is not checked.
Start_noBucketCheck(r, q) ==
  /\ pc[r] = "idle"
  /\ \A o \in Reqs : o < r => pc[o] # "idle"
  /\ request' = [request EXCEPT ![r] = Some(q)]
  /\ IF env.ORIGIN_API_URL = Null \/ env.ORIGIN_API_URL[1] = ""
     THEN /\ response' = [response EXCEPT ![r] =
                Some(NewResponse(Some("Origin API URL not configured"), TRUE, 500, "", NoHeaders))]
          /\ pc' = [pc EXCEPT ![r] = "done"]
          /\ UNCHANGED cacheKey
     ELSE /\ cacheKey' = [cacheKey EXCEPT ![r] = generateCacheKey(q)]
          /\ pc' = [pc EXCEPT ![r] =
                IF ~bypassCache(q) /\ isCacheableMethod(q) THEN "get" ELSE "forward"]
          /\ UNCHANGED response
  /\ UNCHANGED <<env, store, now, pending, object, originResponse, log>>

\* fetch(request, env, ctx) up to the cache lookup: the configuration check,
\* the cache key and the directives.
Start(r, q) ==
  /\ pc[r] = "idle"
  /\ \A o \in Reqs : o < r => pc[o] # "idle"
  /\ request' = [request EXCEPT ![r] = Some(q)]
  /\ IF env.ORIGIN_API_URL = Null \/ env.ORIGIN_API_URL[1] = ""
     THEN /\ response' = [response EXCEPT ![r] =
                Some(NewResponse(Some("Origin API URL not configured"), TRUE, 500, "", NoHeaders))]
          /\ pc' = [pc EXCEPT ![r] = "done"]
          /\ UNCHANGED cacheKey
     ELSE IF ~env.API_CACHE_BUCKET
     THEN /\ response' = [response EXCEPT ![r] =
                Some(NewResponse(Some("R2 Bucket not bound"), TRUE, 500, "", NoHeaders))]
          /\ pc' = [pc EXCEPT ![r] = "done"]
          /\ UNCHANGED cacheKey
     ELSE /\ cacheKey' = [cacheKey EXCEPT ![r] = generateCacheKey(q)]
          /\ pc' = [pc EXCEPT ![r] =
                IF ~bypassCache(q) /\ isCacheableMethod(q) THEN "get" ELSE "forward"]
          /\ UNCHANGED response
  /\ UNCHANGED <<env, store, now, pending, object, originResponse, log>>

\* await env.API_CACHE_BUCKET.get(cacheKey) returns the object or null.
CacheGet(r) ==
  /\ pc[r] = "get"
  /\ log' = [log EXCEPT ![r] = Append(@, Op("get", cacheKey[r], Null))]
  /\ IF cacheKey[r] \in DOMAIN store
     THEN /\ object' = [object EXCEPT ![r] = Some(store[cacheKey[r]])]
          /\ pc' = [pc EXCEPT ![r] = "json"]
     ELSE /\ pc' = [pc EXCEPT ![r] = "forward"]
          /\ UNCHANGED object
  /\ UNCHANGED <<env, store, now, pending, request, cacheKey, originResponse, response>>

\* Mutant: the error of the store get is reported to the caller.
CacheGetError_surfaces(r) ==
  /\ pc[r] = "get"
  /\ log' = [log EXCEPT ![r] =
        Append(Append(@, Op("get", cacheKey[r], Null)), Op("caught", "get", Null))]
  /\ response' = [response EXCEPT ![r] =
        Some(NewResponse(Some("Error reading from R2 cache"), TRUE, 500, "", NoHeaders))]
  /\ pc' = [pc EXCEPT ![r] = "done"]
  /\ UNCHANGED <<env, store, now, pending, request, cacheKey, object, originResponse>>

\* await env.API_CACHE_BUCKET.get(cacheKey) throws: caught and logged.
CacheGetError(r) ==
  /\ pc[r] = "get"
  /\ log' = [log EXCEPT ![r] =
        Append(Append(@, Op("get", cacheKey[r], Null)), Op("caught", "get", Null))]
  /\ pc' = [pc EXCEPT ![r] = "forward"]
  /\ UNCHANGED <<env, store, now, pending, request, cacheKey, object, originResponse, response>>

\* Mutant: the hit branch builds the response and does not return it.
CacheJson_fallthrough(r) ==
  /\ pc[r] = "json"
  /\ LET cachedResponseData == JSONparse(object[r][1].value)
         bodyContent == Some(cachedResponseData.body)
     IN  IF isExpired(object[r][1], now)
         THEN /\ pending' = pending \cup {Task(r, "delete", cacheKey[r], Null)}
              /\ log' = [log EXCEPT ![r] = Append(@, Op("delete", cacheKey[r], Null))]
              /\ pc' = [pc EXCEPT ![r] = "forward"]
              /\ UNCHANGED response
         ELSE IF ResponseThrows(bodyContent, cachedResponseData.status)
         THEN /\ log' = [log EXCEPT ![r] = Append(@, Op("caught", "TypeError", Null))]
              /\ pc' = [pc EXCEPT ![r] = "forward"]
              /\ UNCHANGED <<pending, response>>
         ELSE /\ response' = [response EXCEPT ![r] =
                    Some(NewResponse(bodyContent, TRUE, cachedResponseData.status, "",
                                     hitHeaders(cachedResponseData, cacheKey[r])))]
              /\ log' = [log EXCEPT ![r] = Append(@, Op("hit", cacheKey[r], object[r]))]
              /\ pc' = [pc EXCEPT ![r] = "forward"]
              /\ UNCHANGED pending
  /\ UNCHANGED <<env, store, now, request, cacheKey, object, originResponse>>

\* Mutant: an entry is not served to a request that carries credentials.
CacheJson_credentialed(r) ==
  /\ pc[r] = "json"
  /\ LET cachedResponseData == JSONparse(object[r][1].value)
         bodyContent == Some(cachedResponseData.body)
     IN  IF isExpired(object[r][1], now)
         THEN /\ pending' = pending \cup {Task(r, "delete", cacheKey[r], Null)}
              /\ log' = [log EXCEPT ![r] = Append(@, Op("delete", cacheKey[r], Null))]
              /\ pc' = [pc EXCEPT ![r] = "forward"]
              /\ UNCHANGED response
         ELSE IF \/ ResponseThrows(bodyContent, cachedResponseData.status)
                 \/ "authorization" \in DOMAIN request[r][1].headers
         THEN /\ log' = [log EXCEPT ![r] = Append(@, Op("caught", "TypeError", Null))]
              /\ pc' = [pc EXCEPT ![r] = "forward"]
              /\ UNCHANGED <<pending, response>>
         ELSE /\ response' = [response EXCEPT ![r] =
                    Some(NewResponse(bodyContent, TRUE, cachedResponseData.status, "",
                                     hitHeaders(cachedResponseData, cacheKey[r])))]
              /\ log' = [log EXCEPT ![r] = Append(@, Op("hit", cacheKey[r], object[r]))]
              /\ pc' = [pc EXCEPT ![r] = "done"]
              /\ UNCHANGED pending
  /\ UNCHANGED <<env, store, now, request, cacheKey, object, originResponse>>

\* await object.json() resolves: the expiration check, then the delete of an
\* expired entry or the response built from the entry; new Response throwing is
\* caught like a failed read.
CacheJson(r) ==
  /\ pc[r] = "json"
  /\ LET cachedResponseData == JSONparse(object[r][1].value)
         bodyContent == Some(cachedResponseData.body)
     IN  IF isExpired(object[r][1], now)
         THEN /\ pending' = pending \cup {Task(r, "delete", cacheKey[r], Null)}
              /\ log' = [log EXCEPT ![r] = Append(@, Op("delete", cacheKey[r], Null))]
              /\ pc' = [pc EXCEPT ![r] = "forward"]
              /\ UNCHANGED response
         ELSE IF ResponseThrows(bodyContent, cachedResponseData.status)
         THEN /\ log' = [log EXCEPT ![r] = Append(@, Op("caught", "TypeError", Null))]
              /\ pc' = [pc EXCEPT ![r] = "forward"]
              /\ UNCHANGED <<pending, response>>
         ELSE /\ response' = [response EXCEPT ![r] =
                    Some(NewResponse(bodyContent, TRUE, cachedResponseData.status, "",
                                     hitHeaders(cachedResponseData, cacheKey[r])))]
              /\ log' = [log EXCEPT ![r] = Append(@, Op("hit", cacheKey[r], object[r]))]
              /\ pc' = [pc EXCEPT ![r] = "done"]
              /\ UNCHANGED pending
  /\ UNCHANGED <<env, store, now, request, cacheKey, object, originResponse>>

\* Mutant: the rejection of object.json() is not caught and ends the handler
\* without a response.
CacheJsonError_uncaught(r) ==
  /\ pc[r] = "json"
  /\ log' = [log EXCEPT ![r] = Append(@, Op("caught", "json", Null))]
  /\ pc' = [pc EXCEPT ![r] = "rejected"]
  /\ UNCHANGED <<env, store, now, pending, request, cacheKey, object, originResponse,
                 response>>

\* await object.json() rejects: caught and logged.
CacheJsonError(r) ==
  /\ pc[r] = "json"
  /\ log' = [log EXCEPT ![r] = Append(@, Op("caught", "json", Null))]
  /\ pc' = [pc EXCEPT ![r] = "forward"]
  /\ UNCHANGED <<env, store, now, pending, request, cacheKey, object, originResponse,
                 response>>

\* Mutant: the storage decision does not look at the bypass directive.
OriginFetch_ignoresBypass(r, resp) ==
  /\ pc[r] = "forward"
  /\ originResponse' = [originResponse EXCEPT ![r] = Some(resp)]
  /\ IF shouldCache(request[r][1], resp)
     THEN /\ log' = [log EXCEPT ![r] =
                Append(@, Op("fetch", originRequest(env, request[r][1]).url, Null))]
          /\ pc' = [pc EXCEPT ![r] = "text"]
          /\ UNCHANGED response
     ELSE /\ log' = [log EXCEPT ![r] =
                Append(Append(@, Op("fetch", originRequest(env, request[r][1]).url, Null)),
                       Op("final", cacheKey[r], Null))]
          /\ response' = [response EXCEPT ![r] = Some(missResponse(resp, cacheKey[r]))]
          /\ pc' = [pc EXCEPT ![r] = "done"]
  /\ UNCHANGED <<env, store, now, pending, request, cacheKey, object>>

\* await fetch(originRequest) resolves with resp: the storage decision; the
\* response is returned here when nothing is to be stored.
OriginFetch(r, resp) ==
  /\ pc[r] = "forward"
  /\ originResponse' = [originResponse EXCEPT ![r] = Some(resp)]
  /\ IF shouldCache(request[r][1], resp) /\ ~bypassCache(request[r][1])
     THEN /\ log' = [log EXCEPT ![r] =
                Append(@, Op("fetch", originRequest(env, request[r][1]).url, Null))]
          /\ pc' = [pc EXCEPT ![r] = "text"]
          /\ UNCHANGED response
     ELSE /\ log' = [log EXCEPT ![r] =
                Append(Append(@, Op("fetch", originRequest(env, request[r][1]).url, Null)),
                       Op("final", cacheKey[r], Null))]
          /\ response' = [response EXCEPT ![r] = Some(missResponse(resp, cacheKey[r]))]
          /\ pc' = [pc EXCEPT ![r] = "done"]
  /\ UNCHANGED <<env, store, now, pending, request, cacheKey, object>>

\* Mutant: the failure is reported as a plain 500.
OriginFetchError_as500(r, message) ==
  /\ pc[r] = "forward"
  /\ log' = [log EXCEPT ![r] =
        Append(Append(@, Op("fetch", originRequest(env, request[r][1]).url, Null)),
               Op("threw", message, Null))]
  /\ response' = [response EXCEPT ![r] =
        Some(NewResponse(Some("Failed to fetch from origin"), TRUE, 500, "", NoHeaders))]
  /\ pc' = [pc EXCEPT ![r] = "done"]
  /\ UNCHANGED <<env, store, now, pending, request, cacheKey, object, originResponse>>

\* await fetch(originRequest) throws: the 502.
OriginFetchError(r, message) ==
  /\ pc[r] = "forward"
  /\ log' = [log EXCEPT ![r] =
        Append(Append(@, Op("fetch", originRequest(env, request[r][1]).url, Null)),
               Op("threw", message, Null))]
  /\ response' = [response EXCEPT ![r] =
        Some(NewResponse(Some("Failed to fetch from origin: " \o message), TRUE, 502, "",
                         NoHeaders))]
  /\ pc' = [pc EXCEPT ![r] = "done"]
  /\ UNCHANGED <<env, store, now, pending, request, cacheKey, object, originResponse>>

\* Mutant: the TTL is added to the time without the conversion to milliseconds.
entryToStore_seconds(req, resp, time) ==
  [value |-> JSONstringify([body |-> IF resp.body = Null THEN "" ELSE resp.body[1],
                            status |-> resp.status,
                            headers |-> resp.headers]),
   customMetadata |->
     [expiration |-> NumberToString(time + computeTtl(req, resp))]]

\* The entry put for a response whose text() resolved at time `time`.
entryToStore(req, resp, time) ==
  [value |-> JSONstringify([body |-> IF resp.body = Null THEN "" ELSE resp.body[1],
                            status |-> resp.status,
                            headers |-> resp.headers]),
   customMetadata |->
     [expiration |-> NumberToString(time + computeTtl(req, resp) * MsPerSecond)]]

\* Mutant: the response is built before the put is handed to ctx.waitUntil.
CacheText_finalFirst(r) ==
  /\ pc[r] = "text"
  /\ LET entry == entryToStore(request[r][1], originResponse[r][1], now)
     IN  /\ pending' = pending \cup {Task(r, "put", cacheKey[r], Some(entry))}
         /\ log' = [log EXCEPT ![r] =
               Append(Append(@, Op("final", cacheKey[r], Null)),
                      Op("put", cacheKey[r], Some([entry |-> entry, at |-> now])))]
  /\ response' = [response EXCEPT ![r] = Some(missResponse(originResponse[r][1], cacheKey[r]))]
  /\ pc' = [pc EXCEPT ![r] = "done"]
  /\ UNCHANGED <<env, store, now, request, cacheKey, object, originResponse>>

\* await responseToCache.text() resolves: the put is handed to ctx.waitUntil,
\* then the response is built and returned.
CacheText(r) ==
  /\ pc[r] = "text"
  /\ LET entry == entryToStore(request[r][1], originResponse[r][1], now)
     IN  /\ pending' = pending \cup {Task(r, "put", cacheKey[r], Some(entry))}
         /\ log' = [log EXCEPT ![r] =
               Append(Append(@, Op("put", cacheKey[r], Some([entry |-> entry, at |-> now]))),
                      Op("final", cacheKey[r], Null))]
  /\ response' = [response EXCEPT ![r] = Some(missResponse(originResponse[r][1], cacheKey[r]))]
  /\ pc' = [pc EXCEPT ![r] = "done"]
  /\ UNCHANGED <<env, store, now, request, cacheKey, object, originResponse>>

\* Mutant: a failed read of the response copy is reported to the caller.
CacheTextError_surfaces(r) ==
  /\ pc[r] = "text"
  /\ log' = [log EXCEPT ![r] =
        Append(Append(@, Op("caught", "text", Null)), Op("final", cacheKey[r], Null))]
  /\ response' = [response EXCEPT ![r] =
        Some(NewResponse(Some("Failed to read response body for caching"), TRUE, 500, "",
                         NoHeaders))]
  /\ pc' = [pc EXCEPT ![r] = "done"]
  /\ UNCHANGED <<env, store, now, pending, request, cacheKey, object, originResponse>>

\* await responseToCache.text() rejects: caught and logged, nothing is put.
CacheTextError(r) ==
  /\ pc[r] = "text"
  /\ log' = [log EXCEPT ![r] =
        Append(Append(@, Op("caught", "text", Null)), Op("final", cacheKey[r], Null))]
  /\ response' = [response EXCEPT ![r] = Some(missResponse(originResponse[r][1], cacheKey[r]))]
  /\ pc' = [pc EXCEPT ![r] = "done"]
  /\ UNCHANGED <<env, store, now, pending, request, cacheKey, object, originResponse>>

\* A put handed to ctx.waitUntil takes effect.
PutDone(t) ==
  /\ t \in pending /\ t.op = "put"
  /\ store' = [k \in DOMAIN store \cup {t.key} |->
                 IF k = t.key THEN t.value[1] ELSE store[k]]
  /\ pending' = pending \ {t}
  /\ UNCHANGED <<env, now, pc, request, cacheKey, object, originResponse, response, log>>

\* A delete handed to ctx.waitUntil takes effect.
DeleteDone(t) ==
  /\ t \in pending /\ t.op = "delete"
  /\ store' = [k \in DOMAIN store \ {t.key} |-> store[k]]
  /\ pending' = pending \ {t}
  /\ UNCHANGED <<env, now, pc, request, cacheKey, object, originResponse, response, log>>

\* A put or delete handed to ctx.waitUntil fails (logged) or is abandoned.
TaskFails(t) ==
  /\ t \in pending
  /\ pending' = pending \ {t}
  /\ UNCHANGED <<env, store, now, pc, request, cacheKey, object, originResponse,
                 response, log>>

\* Time passes.
Tick ==
  /\ now < StartMs + MaxTicks * TickMs
  /\ now' = now + TickMs
  /\ UNCHANGED <<env, store, pending, pc, request, cacheKey, object, originResponse,
                 response, log>>

\* Every step but the arrival of a request, the origin answering from R.
Steps(R) ==
  \/ \E r \in Reqs : CacheGet(r)
  \/ \E r \in Reqs : CacheGetError(r)
  \/ \E r \in Reqs : CacheJson(r)
  \/ \E r \in Reqs : CacheJsonError(r)
  \/ \E r \in Reqs : \E resp \in R : OriginFetch(r, resp)
  \/ \E r \in Reqs : \E m \in FetchErrors : OriginFetchError(r, m)
  \/ \E r \in Reqs : CacheText(r)
  \/ \E r \in Reqs : CacheTextError(r)
  \/ \E t \in pending : PutDone(t)
  \/ \E t \in pending : DeleteDone(t)
  \/ \E t \in pending : TaskFails(t)
  \/ Tick

\* Requests arrive at any time and are handled concurrently.
Next ==
  \/ \E r \in Reqs : \E q \in Requests : Start(r, q)
  \/ Steps(OriginResponses)

Spec == Init /\ [][Next]_vars

\* A request arrives only after the earlier ones were answered; their
\* background puts and deletes may still be pending.
StartSeq(r, q) ==
  /\ \A o \in Reqs : o < r => pc[o] = "done"
  /\ Start(r, q)

\* The requests of RequestsKey, handled concurrently.
NextKey ==
  \/ \E r \in Reqs : \E q \in RequestsKey : Start(r, q)
  \/ Steps(OriginResponsesKey)

SpecKey == Init /\ [][NextKey]_vars

NextSeq ==
  \/ \E r \in Reqs : \E q \in Requests : StartSeq(r, q)
  \/ Steps(OriginResponses)

SpecSeq == Init /\ [][NextSeq]_vars

\* The requests and origin responses of the specification with fairness: a
\* plain GET, a bypassing GET and a POST; a storable response that expires
\* after a second, one that forbids storage and a 500 of the origin.
RequestsFair ==
  {Req("GET", UrlW, Body(""), NoHeaders), Req("GET", UrlW, Body(""), CfCc("no-cache")),
   Req("POST", UrlW, Body("a"), NoHeaders)}

OriginResponsesFair ==
  {Resp(200, CC("max-age=1"), Some("x")), Resp(200, CC("no-store"), Some("x")),
   Resp(500, NoHeaders, Some("origin error"))}

\* One step of the handler of request r: an await of it rejects or resolves.
HandlerStep(r, R) ==
  \/ CacheGetError(r) \/ CacheGet(r)
  \/ CacheJsonError(r) \/ CacheJson(r)
  \/ \E m \in FetchErrors : OriginFetchError(r, m)
  \/ \E resp \in R : OriginFetch(r, resp)
  \/ CacheTextError(r) \/ CacheText(r)

NextFair ==
  \/ \E r \in Reqs : \E q \in RequestsFair : Start(r, q)
  \/ Steps(OriginResponsesFair)

\* Every store operation, body read and origin fetch a handler waits for
\* completes or fails: a handler that can take a step eventually takes one.
SpecFair ==
  Init /\ [][NextFair]_vars
       /\ \A r \in Reqs : WF_vars(HandlerStep(r, OriginResponsesFair))

\* The requests and origin responses of the specification of the TTL: GETs
\* whose cf-cache-control is absent or max-age= followed by a positive number, a
\* negative one, zero or no number; responses with and without max-age.
RequestsTtl ==
  {Req("GET", UrlW, Body(""), h) :
     h \in {NoHeaders, CfCc("max-age=1"), CfCc("max-age=-1"), CfCc("max-age=0"),
              CfCc("max-age=abc")}}

OriginResponsesTtl ==
  {Resp(200, CC("public, max-age=2"), Some("x")), Resp(200, NoHeaders, Some("y"))}

NextTtl ==
  \/ \E r \in Reqs : \E q \in RequestsTtl : Start(r, q)
  \/ Steps(OriginResponsesTtl)

SpecTtl == Init /\ [][NextTtl]_vars

\* ------------------------------------------- src/unnamed/part_000, the program

\* The second implementation; its definitions carry the suffix _part000. The
\* platform (strings, Headers, Response, JSON, SHA-256) is the one above.
DEFAULT_CACHE_TTL_SECONDS_part000 == 360000
CACHE_CONTROL_HEADER_part000 == "cf-cache-control"

generateHash_part000(data) ==
  IF Len(data) = 0 THEN "emptybody" ELSE SHA256Hex(data)

generateCacheKey_part000(req) ==
  LET key == req.method \o ":" \o URLtoString(req.url)
  IN  IF req.method = "POST"
      THEN IF req.body.errors THEN key \o ":bodyHash=readerror"
           ELSE IF Len(req.body.bytes) > 0
                THEN key \o ":bodyHash=" \o generateHash_part000(req.body.bytes)
                ELSE key \o ":bodyHash=emptybody"
      ELSE key

\* request.headers.get(CACHE_CONTROL_HEADER)?.toLowerCase() === 'no-cache'
bypassCache_part000(req) ==
  LET h == HeadersGet(req.headers, CACHE_CONTROL_HEADER_part000)
  IN  h # Null /\ toLowerCase(h[1]) = "no-cache"

forceCache_part000(req) ==
  LET h == HeadersGet(req.headers, CACHE_CONTROL_HEADER_part000)
  IN  h # Null /\ toLowerCase(h[1]) = "force-cache"

isCacheableMethod_part000(req) == req.method = "GET" \/ req.method = "POST"

shouldCache_part000(req, resp) ==
  LET cacheControl == LowerHeader(resp, "cache-control")
      pragma == LowerHeader(resp, "pragma")
  IN  /\ (isCacheableMethod_part000(req) \/ forceCache_part000(req))
      /\ resp.status >= 200 /\ resp.status < 300
      /\ \/ cacheControl = Null \/ cacheControl[1] = ""
         \/ (~includes(cacheControl[1], "no-cache") /\ ~includes(cacheControl[1], "no-store"))
      /\ (pragma = Null \/ pragma[1] = "" \/ ~includes(pragma[1], "no-cache"))

\* parseInt(x) || DEFAULT_CACHE_TTL_SECONDS
OrDefault_part000(n) == IF n = Null \/ n[1] = 0 THEN DEFAULT_CACHE_TTL_SECONDS_part000 ELSE n[1]

\* Mutant: the max-age of the request's cf-cache-control is not looked at.
computeTtl_part000_noOverride(req, resp) ==
  LET cacheControl == LowerHeader(resp, "cache-control")
  IN  IF cacheControl # Null /\ cacheControl[1] # ""
         /\ includes(cacheControl[1], "max-age=")
      THEN LET maxAgeMatch == matchMaxAge(cacheControl[1])
           IN  IF maxAgeMatch # Null THEN parseInt(maxAgeMatch[1])[1]
               ELSE DEFAULT_CACHE_TTL_SECONDS_part000
      ELSE DEFAULT_CACHE_TTL_SECONDS_part000

computeTtl_part000(req, resp) ==
  LET customTtlHeader == HeadersGet(req.headers, CACHE_CONTROL_HEADER_part000)
      cacheControl == LowerHeader(resp, "cache-control")
  IN  IF customTtlHeader # Null /\ customTtlHeader[1] # ""
         /\ startsWith(customTtlHeader[1], "max-age=")
      THEN OrDefault_part000(parseInt(splitEq1(customTtlHeader[1])[1]))
      ELSE IF cacheControl # Null /\ cacheControl[1] # ""
              /\ includes(cacheControl[1], "max-age=")
           THEN LET maxAgeMatch == matchMaxAge(cacheControl[1])
                IN  IF maxAgeMatch # Null THEN parseInt(maxAgeMatch[1])[1]
                    ELSE DEFAULT_CACHE_TTL_SECONDS_part000
           ELSE DEFAULT_CACHE_TTL_SECONDS_part000

\* The request sent to the origin: the headers of the inbound request without
\* host, nothing injected.
originRequest_part000(e, req) ==
  [url |-> e.ORIGIN_API_URL[1] \o req.url.pathname \o req.url.search,
   method |-> req.method,
   headers |-> HeadersDelete(req.headers, "host"),
   body |-> req.body]

\* expiration && new Date().getTime() > parseInt(expiration)
isExpired_part000(obj, time) ==
  LET expiration == obj.customMetadata.expiration
  IN  /\ expiration # ""
      /\ parseInt(expiration) # Null
      /\ time > parseInt(expiration)[1]

\* The response of the cache-hit branch, before new Response is applied.
hitHeaders_part000(cachedResponseData, key) ==
  HeadersSet(HeadersSet(cachedResponseData.headers, "x-cache-status", "HIT"),
             "x-cache-key", key)

\* The response of the miss branch.
missResponse_part000(resp, key) ==
  NewResponse(resp.body, FALSE, resp.status, resp.statusText,
              HeadersSet(HeadersSet(resp.headers, "x-cache-status", "MISS"),
                         "x-cache-key", key))

\* fetch(request, env, ctx) up to the cache lookup: the configuration check,
\* the cache key and the directives.
Start_part000(r, q) ==
  /\ pc[r] = "idle"
  /\ \A o \in Reqs : o < r => pc[o] # "idle"
  /\ request' = [request EXCEPT ![r] = Some(q)]
  /\ IF env.ORIGIN_API_URL = Null \/ env.ORIGIN_API_URL[1] = ""
     THEN /\ response' = [response EXCEPT ![r] =
                Some(NewResponse(Some("Origin API URL not configured"), TRUE, 500, "", NoHeaders))]
          /\ pc' = [pc EXCEPT ![r] = "done"]
          /\ UNCHANGED cacheKey
     ELSE IF ~env.API_CACHE_BUCKET
     THEN /\ response' = [response EXCEPT ![r] =
                Some(NewResponse(Some("R2 Bucket not bound"), TRUE, 500, "", NoHeaders))]
          /\ pc' = [pc EXCEPT ![r] = "done"]
          /\ UNCHANGED cacheKey
     ELSE /\ cacheKey' = [cacheKey EXCEPT ![r] = generateCacheKey_part000(q)]
          /\ pc' = [pc EXCEPT ![r] =
                IF ~bypassCache_part000(q) /\ isCacheableMethod_part000(q) THEN "get" ELSE "forward"]
          /\ UNCHANGED response
  /\ UNCHANGED <<env, store, now, pending, object, originResponse, log>>

\* await env.API_CACHE_BUCKET.get(cacheKey) returns the object or null.
CacheGet_part000(r) ==
  /\ pc[r] = "get"
  /\ log' = [log EXCEPT ![r] = Append(@, Op("get", cacheKey[r], Null))]
  /\ IF cacheKey[r] \in DOMAIN store
     THEN /\ object' = [object EXCEPT ![r] = Some(store[cacheKey[r]])]
          /\ pc' = [pc EXCEPT ![r] = "json"]
     ELSE /\ pc' = [pc EXCEPT ![r] = "forward"]
          /\ UNCHANGED object
  /\ UNCHANGED <<env, store, now, pending, request, cacheKey, originResponse, response>>

\* await env.API_CACHE_BUCKET.get(cacheKey) throws: caught and logged.
CacheGetError_part000(r) ==
  /\ pc[r] = "get"
  /\ log' = [log EXCEPT ![r] =
        Append(Append(@, Op("get", cacheKey[r], Null)), Op("caught", "get", Null))]
  /\ pc' = [pc EXCEPT ![r] = "forward"]
  /\ UNCHANGED <<env, store, now, pending, request, cacheKey, object, originResponse, response>>

\* await object.json() resolves: the expiration check, then the delete of an
\* expired entry or the response built from the entry; new Response throwing is
\* caught like a failed read.
CacheJson_part000(r) ==
  /\ pc[r] = "json"
  /\ LET cachedResponseData == JSONparse(object[r][1].value)
         bodyContent == Some(cachedResponseData.body)
     IN  IF isExpired_part000(object[r][1], now)
         THEN /\ pending' = pending \cup {Task(r, "delete", cacheKey[r], Null)}
              /\ log' = [log EXCEPT ![r] = Append(@, Op("delete", cacheKey[r], Null))]
              /\ pc' = [pc EXCEPT ![r] = "forward"]
              /\ UNCHANGED response
         ELSE IF ResponseThrows(bodyContent, cachedResponseData.status)
         THEN /\ log' = [log EXCEPT ![r] = Append(@, Op("caught", "TypeError", Null))]
              /\ pc' = [pc EXCEPT ![r] = "forward"]
              /\ UNCHANGED <<pending, response>>
         ELSE /\ response' = [response EXCEPT ![r] =
                    Some(NewResponse(bodyContent, TRUE, cachedResponseData.status, "",
                                     hitHeaders_part000(cachedResponseData, cacheKey[r])))]
              /\ log' = [log EXCEPT ![r] = Append(@, Op("hit", cacheKey[r], object[r]))]
              /\ pc' = [pc EXCEPT ![r] = "done"]
              /\ UNCHANGED pending
  /\ UNCHANGED <<env, store, now, request, cacheKey, object, originResponse>>

\* await object.json() rejects: caught and logged.
CacheJsonError_part000(r) ==
  /\ pc[r] = "json"
  /\ log' = [log EXCEPT ![r] = Append(@, Op("caught", "json", Null))]
  /\ pc' = [pc EXCEPT ![r] = "forward"]
  /\ UNCHANGED <<env, store, now, pending, request, cacheKey, object, originResponse,
                 response>>

\* await fetch(originRequest) resolves with resp: the storage decision; the
\* response is returned here when nothing is to be stored.
OriginFetch_part000(r, resp) ==
  /\ pc[r] = "forward"
  /\ originResponse' = [originResponse EXCEPT ![r] = Some(resp)]
  /\ IF shouldCache_part000(request[r][1], resp) /\ ~bypassCache_part000(request[r][1])
     THEN /\ log' = [log EXCEPT ![r] =
                Append(@, Op("fetch", originRequest_part000(env, request[r][1]).url, Null))]
          /\ pc' = [pc EXCEPT ![r] = "text"]
          /\ UNCHANGED response
     ELSE /\ log' = [log EXCEPT ![r] =
                Append(Append(@, Op("fetch", originRequest_part000(env, request[r][1]).url, Null)),
                       Op("final", cacheKey[r], Null))]
          /\ response' = [response EXCEPT ![r] = Some(missResponse_part000(resp, cacheKey[r]))]
          /\ pc' = [pc EXCEPT ![r] = "done"]
  /\ UNCHANGED <<env, store, now, pending, request, cacheKey, object>>

\* await fetch(originRequest) throws: the 502.
OriginFetchError_part000(r, message) ==
  /\ pc[r] = "forward"
  /\ log' = [log EXCEPT ![r] =
        Append(Append(@, Op("fetch", originRequest_part000(env, request[r][1]).url, Null)),
               Op("threw", message, Null))]
  /\ response' = [response EXCEPT ![r] =
        Some(NewResponse(Some("Failed to fetch from origin: " \o message), TRUE, 502, "",
                         NoHeaders))]
  /\ pc' = [pc EXCEPT ![r] = "done"]
  /\ UNCHANGED <<env, store, now, pending, request, cacheKey, object, originResponse>>

\* The entry put for a response whose text() resolved at time `time`.
entryToStore_part000(req, resp, time) ==
  [value |-> JSONstringify([body |-> IF resp.body = Null THEN "" ELSE resp.body[1],
                            status |-> resp.status,
                            headers |-> resp.headers]),
   customMetadata |->
     [expiration |-> NumberToString(time + computeTtl_part000(req, resp) * 1000)]]

\* await responseToCache.text() resolves: the put is handed to ctx.waitUntil,
\* then the response is built and returned.
CacheText_part000(r) ==
  /\ pc[r] = "text"
  /\ LET entry == entryToStore_part000(request[r][1], originResponse[r][1], now)
     IN  /\ pending' = pending \cup {Task(r, "put", cacheKey[r], Some(entry))}
         /\ log' = [log EXCEPT ![r] =
               Append(Append(@, Op("put", cacheKey[r], Some([entry |-> entry, at |-> now]))),
                      Op("final", cacheKey[r], Null))]
  /\ response' = [response EXCEPT ![r] = Some(missResponse_part000(originResponse[r][1], cacheKey[r]))]
  /\ pc' = [pc EXCEPT ![r] = "done"]
  /\ UNCHANGED <<env, store, now, request, cacheKey, object, originResponse>>

\* await responseToCache.text() rejects: caught and logged, nothing is put.
CacheTextError_part000(r) ==
  /\ pc[r] = "text"
  /\ log' = [log EXCEPT ![r] =
        Append(Append(@, Op("caught", "text", Null)), Op("final", cacheKey[r], Null))]
  /\ response' = [response EXCEPT ![r] = Some(missResponse_part000(originResponse[r][1], cacheKey[r]))]
  /\ pc' = [pc EXCEPT ![r] = "done"]
  /\ UNCHANGED <<env, store, now, pending, request, cacheKey, object, originResponse>>

\* ------------------------------------- the two implementations side by side

\* Handler 1 runs src/cloudflare_cache.js and handler 2 src/unnamed/part_000 on
\* the same request, bindings, store, clock and origin behaviour. The requests:
\* GETs with each directive, a max-age that parses and one that does not, a GET
\* with host and credentials, POSTs read with and without failure, PUTs.
RequestsPair ==
  {Req("GET", UrlW, Body(""), h) :
     h \in {NoHeaders, CfCc("no-cache"), CfCc("force-cache"), CfCc("max-age=1"),
              CfCc("max-age=abc"),
              [n \in {"host", "authorization"} |-> IF n = "host" THEN "p" ELSE "t"]}}
  \cup {Req("POST", UrlW, Body("a"), NoHeaders), Req("POST", UrlW, Errored("b"), NoHeaders)}
  \cup {Req("PUT", UrlW, Body("a"), h) : h \in {NoHeaders, CfCc("force-cache")}}

OriginResponsesPair ==
  { Resp(200, CC("max-age=2"), Some("x")),
    Resp(200, NoHeaders, Some("y")),
    Resp(200, CC("No-Store"), Some("x")),
    Resp(204, NoHeaders, Null),
    Resp(404, NoHeaders, Some("n")) }

\* The stores the handlers start with: empty, or one entry that either
\* implementation put a second before the clock starts, for a GET or a POST,
\* with a max-age of two seconds, with the default TTL, or of a 204.
StoresPair ==
  {[k \in {} |-> Null]}
  \cup {[k \in {generateCacheKey(q)} |-> e] :
          q \in {Req("GET", UrlW, Body(""), NoHeaders), Req("POST", UrlW, Body("a"), NoHeaders)},
          e \in {entryToStore(Req("GET", UrlW, Body(""), NoHeaders), resp, 0) :
                   resp \in {Resp(200, CC("max-age=2"), Some("x")),
                             Resp(200, NoHeaders, Some("y")),
                             Resp(204, NoHeaders, Null)}}
                \cup {entryToStore_part000(Req("GET", UrlW, Body(""), NoHeaders), resp, 0) :
                        resp \in {Resp(200, NoHeaders, Some("y"))}}}

InitPair ==
  /\ env \in Envs
  /\ store \in StoresPair
  /\ now = StartMs
  /\ pending = {}
  /\ pc = [r \in Reqs |-> "idle"]
  /\ request = [r \in Reqs |-> Null]
  /\ cacheKey = [r \in Reqs |-> ""]
  /\ object = [r \in Reqs |-> Null]
  /\ originResponse = [r \in Reqs |-> Null]
  /\ response = [r \in Reqs |-> Null]
  /\ log = [r \in Reqs |-> <<>>]

\* Both handlers have taken the same number of steps.
InSync == (pc[1] = "idle" <=> pc[2] = "idle") /\ Len(log[1]) = Len(log[2])

\* What the last step of handler 1 logged, handler 2 not having taken it yet.
Ahead == SubSeq(log[1], Len(log[2]) + 1, Len(log[1]))

\* The await of the last step of handler 1 rejected, resp. its fetch threw.
Caught(what) == \E i \in DOMAIN Ahead : Ahead[i] = Op("caught", what, Null)
Threw(message) == \E i \in DOMAIN Ahead : Ahead[i] = Op("threw", message, Null)

\* Handler 1 takes a step, the store, the origin and the clock behaving in any
\* way; handler 2 then takes its step with the same outcome of the await.
NextPair ==
  \/ \E q \in RequestsPair : Start(1, q)
  \/ pc[1] # "idle" /\ Start_part000(2, request[1][1])
  \/ InSync /\ CacheGet(1)
  \/ InSync /\ CacheGetError(1)
  \/ InSync /\ CacheJson(1)
  \/ InSync /\ CacheJsonError(1)
  \/ InSync /\ \E resp \in OriginResponsesPair : OriginFetch(1, resp)
  \/ InSync /\ \E m \in FetchErrors : OriginFetchError(1, m)
  \/ InSync /\ CacheText(1)
  \/ InSync /\ CacheTextError(1)
  \/ ~InSync /\ ~Caught("get") /\ CacheGet_part000(2)
  \/ ~InSync /\ Caught("get") /\ CacheGetError_part000(2)
  \/ ~InSync /\ ~Caught("json") /\ CacheJson_part000(2)
  \/ ~InSync /\ Caught("json") /\ CacheJsonError_part000(2)
  \/ /\ ~InSync /\ pc[2] = "forward" /\ originResponse[1] # Null
     /\ \A m \in FetchErrors : ~Threw(m)
     /\ OriginFetch_part000(2, originResponse[1][1])
  \/ ~InSync /\ \E m \in FetchErrors : Threw(m) /\ OriginFetchError_part000(2, m)
  \/ ~InSync /\ ~Caught("text") /\ CacheText_part000(2)
  \/ ~InSync /\ Caught("text") /\ CacheTextError_part000(2)
  \/ InSync /\ Tick

SpecPair == InitPair /\ [][NextPair]_vars

\* ------------------------------------------------- vocabulary of the claims

\* s ends with p.
endsWith(s, p) == Len(s) >= Len(p) /\ SubSeq(s, Len(s) - Len(p) + 1, Len(s)) = p

\* The positions of the operations `op` in the log of request r.
LogOps(r, op) == {i \in 1..Len(log[r]) : log[r][i].op = op}
Count(r, op) == Cardinality(LogOps(r, op))

Served(r) == Count(r, "hit")
Forwarded(r) == Count(r, "fetch")

Started(r) == pc[r] # "idle"
Returned(r) == pc[r] = "done"

\* Both bindings are configured.
ConfigPresent == env.ORIGIN_API_URL # Null /\ env.API_CACHE_BUCKET

\* The value of a header of the response returned for r, Null when absent.
Returns(r, name) ==
  IF name \in DOMAIN response[r][1].headers
  THEN Some(response[r][1].headers[name]) ELSE Null

\* The directive of the request's cf-cache-control header, lower-cased.
Directive(q) ==
  IF "cf-cache-control" \in DOMAIN q.headers
  THEN Some(toLowerCase(q.headers["cf-cache-control"])) ELSE Null

BypassRequested(q) == Directive(q) = Some("no-cache")
ForceRequested(q) == Directive(q) = Some("force-cache")
LookupEligible(q) == q.method \in {"GET", "POST"} /\ ~BypassRequested(q)

\* The expiration instant of a stored object, in epoch milliseconds.
ExpirationMs(obj) == parseInt(obj.customMetadata.expiration)[1]

DeleteIssued(r) ==
  /\ Count(r, "delete") = 1
  /\ \A i \in LogOps(r, "delete") : log[r][i].key = cacheKey[r]

\* ----------------------------------------------------------------------- C1

\* C1 as stated: a lookup that finds an entry whose expiration instant is
\* earlier than the current time never answers from it, goes on to the origin
\* and issues a delete of the key.
C1_Original ==
  [][\A r \in Reqs :
       (pc[r] = "json" /\ pc'[r] # "json" /\ ExpirationMs(object[r][1]) < now)
       => /\ pc'[r] = "forward" /\ response'[r] = Null
          /\ DeleteIssued(r)'
          /\ Task(r, "delete", cacheKey[r], Null) \in pending']_vars

\* C1, amended: a lookup-eligible request whose store get returns an entry
\* whose expiration instant is earlier than the current time is never answered
\* from that entry and goes on to the origin as a miss does; the delete of the
\* key is issued whenever reading the object (object.json()) succeeds.
C1_ExpiredEntryNotServed ==
  [][\A r \in Reqs :
       (pc[r] = "json" /\ pc'[r] # "json" /\ ExpirationMs(object[r][1]) < now)
       => /\ LookupEligible(request[r][1])
          /\ pc'[r] = "forward" /\ response'[r] = Null /\ Served(r)' = 0
          /\ ~CacheJsonError(r)
               => /\ DeleteIssued(r)'
                  /\ Task(r, "delete", cacheKey[r], Null) \in pending']_vars

\* An expired entry was found, its delete issued, and the request answered by
\* the origin.
C1_Witness ==
  \E r \in Reqs :
     /\ Returned(r) /\ DeleteIssued(r) /\ Forwarded(r) = 1 /\ Served(r) = 0
     /\ ExpirationMs(object[r][1]) < now
     /\ Returns(r, "x-cache-status") = Some("MISS")

\* ----------------------------------------------------------------------- C2

\* C2 as stated: every answered request was either served from the cache or
\* forwarded to the origin, exactly one of the two and exactly once.
C2_Original ==
  \A r \in Reqs : Returned(r) => Served(r) + Forwarded(r) = 1

\* C2, amended: a request handled with both bindings configured is served from
\* the cache or forwarded to the origin, exactly one of the two and exactly
\* once; with a binding missing the request is answered 500 and neither occurs.
C2_ExactlyOne ==
  \A r \in Reqs :
     /\ Served(r) + Forwarded(r) <= 1
     /\ Returned(r) /\ ConfigPresent => Served(r) + Forwarded(r) = 1
     /\ Returned(r) /\ ~ConfigPresent
          => Served(r) + Forwarded(r) = 0 /\ response[r][1].status = 500
     /\ Returned(r) /\ Served(r) = 1 => Returns(r, "x-cache-status") = Some("HIT")

\* One request was served from the cache and another forwarded.
C2_Witness ==
  \E r1, r2 \in Reqs :
     /\ Returned(r1) /\ Served(r1) = 1 /\ Forwarded(r1) = 0
     /\ Returned(r2) /\ Served(r2) = 0 /\ Forwarded(r2) = 1

\* ----------------------------------------------------------------------- C3

\* C3 as stated (for a worker with both bindings configured): a request
\* carrying the bypass directive is always forwarded and its response always
\* carries X-Cache-Status: MISS.
C3_Original ==
  \A r \in Reqs :
     Returned(r) /\ BypassRequested(request[r][1]) /\ ConfigPresent
       => Forwarded(r) = 1 /\ Returns(r, "x-cache-status") = Some("MISS")

\* C3, amended: a request whose cf-cache-control is no-cache, handled with both
\* bindings configured, is never looked up in or answered from the store and is
\* always forwarded to the origin; its response carries X-Cache-Status: MISS
\* whenever the origin fetch returns a response, and is the 502 without that
\* header when the fetch throws.
C3_BypassForwards ==
  \A r \in Reqs :
     Started(r) /\ BypassRequested(request[r][1])
       => /\ Count(r, "get") = 0 /\ Served(r) = 0
          /\ Returned(r) /\ ConfigPresent
               => /\ Forwarded(r) = 1
                  /\ originResponse[r] # Null
                       => /\ Returns(r, "x-cache-status") = Some("MISS")
                          /\ response[r][1].status = originResponse[r][1].status
                  /\ originResponse[r] = Null
                       => /\ Returns(r, "x-cache-status") = Null
                          /\ response[r][1].status = 502

\* A bypassing request was answered MISS by the origin while the store holds
\* an unexpired entry for its key.
C3_Witness ==
  \E r \in Reqs :
     /\ Returned(r) /\ BypassRequested(request[r][1])
     /\ Returns(r, "x-cache-status") = Some("MISS")
     /\ cacheKey[r] \in DOMAIN store
     /\ now <= ExpirationMs(store[cacheKey[r]])

\* ----------------------------------------------------------------------- C4

\* C4: when the fetch to the origin throws, the handler returns status 502
\* with a body containing the failure message, and issues no put.
C4_OriginFailure ==
  \A r \in Reqs :
     \A i \in LogOps(r, "threw") :
        /\ Returned(r)
        /\ response[r][1].status = 502
        /\ response[r][1].body # Null
        /\ includes(response[r][1].body[1], log[r][i].key)
        /\ Count(r, "put") = 0
        /\ \A t \in pending : ~(t.req = r /\ t.op = "put")

\* The origin fetch of a request threw and the request was answered 502.
C4_Witness ==
  \E r \in Reqs :
     /\ Returned(r) /\ Count(r, "threw") = 1 /\ response[r][1].status = 502

\* ----------------------------------------------------------------------- C5

\* The response headers forbid storing: Cache-Control contains no-store or
\* no-cache, or Pragma contains no-cache (case-insensitive).
ForbidsStorage(resp) ==
  \/ /\ "cache-control" \in DOMAIN resp.headers
     /\ \/ includes(toLowerCase(resp.headers["cache-control"]), "no-store")
        \/ includes(toLowerCase(resp.headers["cache-control"]), "no-cache")
  \/ /\ "pragma" \in DOMAIN resp.headers
     /\ includes(toLowerCase(resp.headers["pragma"]), "no-cache")

\* C5: no put is ever issued for an origin response whose Cache-Control
\* contains no-store or no-cache or whose Pragma contains no-cache, whatever
\* the method and also when the request carries force-cache.
C5_ForbiddenNeverPut ==
  \A r \in Reqs :
     originResponse[r] # Null /\ ForbidsStorage(originResponse[r][1])
       => /\ Count(r, "put") = 0
          /\ \A t \in pending : ~(t.req = r /\ t.op = "put")
          /\ pc[r] = "done"

\* A request carrying force-cache got a 2xx response with Cache-Control:
\* No-Store and was answered without a put.
C5_Witness ==
  \E r \in Reqs :
     /\ Returned(r) /\ ForceRequested(request[r][1])
     /\ originResponse[r] # Null
     /\ originResponse[r][1].status = 200
     /\ "cache-control" \in DOMAIN originResponse[r][1].headers
     /\ toLowerCase(originResponse[r][1].headers["cache-control"]) = "no-store"
     /\ Count(r, "put") = 0

\* ----------------------------------------------------------------------- C6

\* The text of the body of an origin response, as responseToCache.text() reads it.
TextOf(resp) == IF resp.body = Null THEN "" ELSE resp.body[1]

\* The entries request r handed to put, with the time of the put.
PutsOf(r) == {log[r][i].value[1] : i \in LogOps(r, "put")}

\* The response returned for r2 is the stored response of origin response
\* resp: its status, every header of it (but the two overlaid) and its body,
\* with X-Cache-Status: HIT and X-Cache-Key the key.
ServesStored(r2, resp) ==
  /\ response[r2] # Null
  /\ response[r2][1].status = resp.status
  /\ response[r2][1].body = Some(TextOf(resp))
  /\ \A n \in DOMAIN resp.headers \ {"x-cache-status", "x-cache-key"} :
        Returns(r2, n) = Some(resp.headers[n])
  /\ Returns(r2, "x-cache-status") = Some("HIT")
  /\ Returns(r2, "x-cache-key") = Some(cacheKey[r2])

\* C6: round trip. Every entry the miss path stored (status s, headers h, text
\* body b) is returned, with status s, every header of h and body b and the
\* HIT overlay, to a lookup-eligible request for its key whose get returns the
\* entry, and reads it, before the expiration instant.
C6_RoundTrip ==
  [][\A r1, r2 \in Reqs :
       \A p \in PutsOf(r1) :
          ( /\ pc[r2] = "json" /\ pc'[r2] # "json" /\ ~CacheJsonError(r2)
            /\ cacheKey[r2] = cacheKey[r1]
            /\ object[r2] = Some(p.entry)
            /\ now < ExpirationMs(p.entry) )
          => ServesStored(r2, originResponse[r1][1])']_vars

\* ----------------------------------------------------------------------- C7

\* The N of a Cache-Control header that is exactly max-age=N, else Null.
MaxAgeOf(resp) ==
  IF /\ "cache-control" \in DOMAIN resp.headers
     /\ startsWith(resp.headers["cache-control"], "max-age=")
     /\ Len(resp.headers["cache-control"]) > 8
     /\ \A i \in 9..Len(resp.headers["cache-control"]) :
           IsDigit(CharAt(resp.headers["cache-control"], i))
  THEN parseInt(SubSeq(resp.headers["cache-control"], 9,
                       Len(resp.headers["cache-control"])))
  ELSE Null

\* Request r was a GET that missed, was forwarded, got a 200 with
\* Cache-Control: max-age=N and was answered with X-Cache-Status: MISS.
MissedWithMaxAge(r) ==
  /\ Returned(r) /\ ConfigPresent
  /\ request[r][1].method = "GET"
  /\ Forwarded(r) = 1 /\ Served(r) = 0
  /\ originResponse[r] # Null
  /\ originResponse[r][1].status = 200
  /\ MaxAgeOf(originResponse[r][1]) # Null
  /\ Returns(r, "x-cache-status") = Some("MISS")

\* The request's cf-cache-control header sets max-age itself.
OverridesMaxAge(q) ==
  /\ "cf-cache-control" \in DOMAIN q.headers
  /\ startsWith(q.headers["cf-cache-control"], "max-age=")

\* C7 as stated, for requests that arrive one after the other (SpecSeq) and a
\* first request that handed its response to put at time p.at: an identical GET
\* answered within N seconds of p.at gets the same body with HIT.
C7_Original ==
  \A r1, r2 \in Reqs :
     \A p \in PutsOf(r1) :
        ( /\ r1 < r2
          /\ MissedWithMaxAge(r1)
          /\ request[r2] = request[r1]
          /\ Returned(r2)
          /\ now <= p.at + MaxAgeOf(originResponse[r1][1])[1] * 1000 )
        => /\ Returns(r2, "x-cache-status") = Some("HIT")
           /\ response[r2][1].body = Some(TextOf(originResponse[r1][1]))

\* C7, amended: after a GET that carried no max-age of its own in
\* cf-cache-control missed, was forwarded, got a 200 with Cache-Control:
\* max-age=N and was answered MISS, a subsequent identical GET returns the same
\* body with X-Cache-Status: HIT whenever its store get returns the entry put
\* for that response (the background put has taken effect and the entry was
\* not replaced or deleted) and reads it no later than N seconds after the put.
C7_SubsequentHit ==
  [][\A r1, r2 \in Reqs :
       \A p \in PutsOf(r1) :
          ( /\ r1 # r2
            /\ MissedWithMaxAge(r1)
            /\ ~OverridesMaxAge(request[r1][1])
            /\ request[r2] = request[r1]
            /\ pc[r2] = "json" /\ pc'[r2] # "json" /\ ~CacheJsonError(r2)
            /\ object[r2] = Some(p.entry)
            /\ now <= p.at + MaxAgeOf(originResponse[r1][1])[1] * 1000 )
          => /\ Returned(r2)'
             /\ Returns(r2, "x-cache-status")' = Some("HIT")
             /\ response'[r2][1].body = Some(TextOf(originResponse[r1][1]))
             /\ Forwarded(r2)' = 0]_vars

\* The second GET was answered HIT, a second after the put, with the body the
\* first one got from the origin.
C7_Witness ==
  \E r1, r2 \in Reqs :
     \E p \in PutsOf(r1) :
        /\ r1 < r2
        /\ MissedWithMaxAge(r1) /\ ~OverridesMaxAge(request[r1][1])
        /\ request[r2] = request[r1]
        /\ Returned(r2)
        /\ \E i \in LogOps(r2, "hit") : log[r2][i].value = Some(p.entry)
        /\ now > p.at
        /\ now <= p.at + MaxAgeOf(originResponse[r1][1])[1] * 1000
        /\ Returns(r2, "x-cache-status") = Some("HIT")
        /\ response[r2][1].body = Some(TextOf(originResponse[r1][1]))

\* ----------------------------------------------------------------------- C8

KeyBuilt(r) == Started(r) /\ ConfigPresent

C9_Original ==
  \A r \in Reqs :
     ( /\ KeyBuilt(r)
       /\ request[r][1].method \in {"GET", "POST"}
       /\ request[r][1].body = Body("") )
     => endsWith(cacheKey[r], ":bodyHash=emptybody")

\* C9, amended: for POST, the one method whose body enters the key, a request
\* whose body is read and has zero length always gets a key ending in
\* :bodyHash=emptybody, never the hex hash of the empty byte sequence; the key
\* of a GET carries no bodyHash suffix at all.
C9_EmptyBodySentinel ==
  \A r \in Reqs :
     KeyBuilt(r) =>
       /\ request[r][1].method = "POST" /\ request[r][1].body = Body("")
            => /\ endsWith(cacheKey[r], ":bodyHash=emptybody")
               /\ ~includes(cacheKey[r],
                    "e3b0c44298fc1c149afbf4c8996fb92427ae41e4649b934ca495991b7852b855")
       /\ request[r][1].method = "GET" => ~includes(cacheKey[r], ":bodyHash=")

\* A POST with a zero-length body was keyed with the sentinel.
C9_Witness ==
  \E r \in Reqs :
     /\ KeyBuilt(r)
     /\ request[r][1].method = "POST" /\ request[r][1].body = Body("")
     /\ cacheKey[r] = "POST:https://p/w?id=1:bodyHash=emptybody"

\* ---------------------------------------------------------------------- C10

\* Request r2 was served the entry request r1 stored.
ServedEntryOf(r1, r2) ==
  \E p \in PutsOf(r1) :
     \E i \in LogOps(r2, "hit") :
        log[r2][i].value = Some(p.entry) /\ cacheKey[r1] = cacheKey[r2]

SameUrlOtherBody(r1, r2) ==
  /\ KeyBuilt(r1) /\ KeyBuilt(r2)
  /\ request[r1][1].method = "POST" /\ request[r2][1].method = "POST"
  /\ request[r1][1].url = request[r2][1].url
  /\ request[r1][1].body # request[r2][1].body

\* C10 as stated: two POSTs to the same URL with different bodies always get
\* different keys, and a response stored for one is never served to the other.
C10_Original ==
  \A r1, r2 \in Reqs :
     SameUrlOtherBody(r1, r2)
       => cacheKey[r1] # cacheKey[r2] /\ ~ServedEntryOf(r1, r2)

\* C10, amended: two POSTs to the same URL with different bodies get different
\* keys, and a response stored for one is never served to the other, provided
\* the body of at least one of them is read without error (two bodies whose
\* reads both fail share the key ending in :bodyHash=readerror).
C10_BodiesKeyedApart ==
  \A r1, r2 \in Reqs :
     ( /\ SameUrlOtherBody(r1, r2)
       /\ ~(request[r1][1].body.errors /\ request[r2][1].body.errors) )
     => cacheKey[r1] # cacheKey[r2] /\ ~ServedEntryOf(r1, r2)

\* The response of a POST of body a was stored, and a POST of body b to the
\* same URL looked up another key and was answered by the origin.
C10_Witness ==
  \E r1, r2 \in Reqs :
     /\ SameUrlOtherBody(r1, r2)
     /\ request[r1][1].body = Body("a") /\ request[r2][1].body = Body("b")
     /\ cacheKey[r1] \in DOMAIN store
     /\ PutsOf(r1) # {}
     /\ cacheKey[r2] # cacheKey[r1]
     /\ Count(r2, "get") = 1 /\ Forwarded(r2) = 1 /\ Returned(r2)

\* ---------------------------------------------------------------------- C11

\* The lookup of r failed: the store get threw, object.json() rejected, or the
\* response could not be built from the stored entry.
ReadFailed(r) ==
  \E i \in LogOps(r, "caught") : log[r][i].key \in {"get", "json", "TypeError"}

\* The lookup of r found no entry under its key.
FoundAbsent(r) ==
  /\ Count(r, "get") = 1 /\ object[r] = Null /\ Count(r, "caught") = 0
  /\ pc[r] # "get"

\* The response is the origin's: its status and body, its headers overlaid
\* with X-Cache-Status: MISS and X-Cache-Key.
AnsweredAsMiss(r) ==
  /\ originResponse[r] # Null
  /\ response[r][1].status = originResponse[r][1].status
  /\ response[r][1].body = originResponse[r][1].body
  /\ Returns(r, "x-cache-status") = Some("MISS")
  /\ Returns(r, "x-cache-key") = Some(cacheKey[r])
  /\ \A n \in DOMAIN originResponse[r][1].headers \ {"x-cache-status", "x-cache-key"} :
        Returns(r, n) = Some(originResponse[r][1].headers[n])

\* The response is the 502 of a failed origin fetch, without X-Cache-Status.
AnsweredBadGateway(r) ==
  /\ originResponse[r] = Null
  /\ response[r][1].status = 502
  /\ Returns(r, "x-cache-status") = Null
  /\ startsWith(response[r][1].body[1], "Failed to fetch from origin: ")

\* C11 as stated: a request whose store get failed, or whose stored object
\* could not be parsed or turned into a response, is forwarded to the origin
\* and answered with X-Cache-Status: MISS.
C11_Original ==
  \A r \in Reqs :
     Returned(r) /\ ReadFailed(r)
       => Forwarded(r) = 1 /\ Returns(r, "x-cache-status") = Some("MISS")

\* C11, amended: a request whose store get failed, or whose stored object could
\* not be parsed or turned into a response, is never answered from the store
\* and is forwarded to the origin exactly as a request whose entry is absent:
\* answered with the origin's response and X-Cache-Status: MISS when the origin
\* fetch returns, with the 502 (no X-Cache-Status) when it throws; an identical
\* request that found no entry and got the same origin outcome has the same
\* response and hands the same entry to put.
C11_ReadErrorIsMiss ==
  \A r \in Reqs :
     ReadFailed(r)
       => /\ Served(r) = 0
          /\ pc[r] \notin {"get", "json"}
          /\ Returned(r)
               => /\ Forwarded(r) = 1
                  /\ AnsweredAsMiss(r) \/ AnsweredBadGateway(r)
                  /\ \A a \in Reqs :
                        ( /\ Returned(a) /\ FoundAbsent(a)
                          /\ request[a] = request[r]
                          /\ originResponse[a] = originResponse[r]
                          /\ Count(a, "threw") = Count(r, "threw") )
                        => /\ response[a] = response[r]
                           /\ \/ {p.entry.value : p \in PutsOf(a)}
                                   = {p.entry.value : p \in PutsOf(r)}
                              \/ \E i \in LogOps(r, "caught") : log[r][i].key = "text"

\* A request whose store get threw and an identical one that found no entry
\* got the same origin response and were answered alike, with MISS.
C11_Witness ==
  \E r, a \in Reqs :
     /\ Returned(r) /\ ReadFailed(r) /\ Returned(a) /\ FoundAbsent(a)
     /\ request[a] = request[r] /\ originResponse[a] = originResponse[r]
     /\ AnsweredAsMiss(r) /\ response[a] = response[r]
     /\ PutsOf(r) # {} /\ PutsOf(a) # {}

\* ---------------------------------------------------------------------- C12

\* The put request r handed to ctx.waitUntil has not settled.
PutPending(r) == \E t \in pending : t.req = r /\ t.op = "put"

\* C12: on the miss path the handler returns as soon as the read of the
\* response copy has resolved or rejected, without waiting for the put (the put
\* it issued is still pending when it returns); the response is the origin's
\* with the MISS overlay whether that read succeeded or failed, and no later
\* step (the put taking effect or failing) changes it.
C12_ResponseIndependent ==
  [][\A r \in Reqs :
       /\ (pc[r] = "text" /\ pc'[r] # "text")
            => /\ Returned(r)' /\ AnsweredAsMiss(r)'
               /\ PutsOf(r)' # {} => PutPending(r)'
               /\ PutsOf(r)' = {} => log'[r][Len(log'[r]) - 1] = Op("caught", "text", Null)
       /\ Returned(r) => Returned(r)' /\ response'[r] = response[r]]_vars

\* Two identical requests got the same origin response; the read of the copy
\* failed for one, the put of the other is still pending, a third outcome (the
\* put done or failed) is open, and both were answered alike.
C12_Witness ==
  \E r1, r2 \in Reqs :
     /\ Returned(r1) /\ Returned(r2)
     /\ request[r1] = request[r2] /\ originResponse[r1] = originResponse[r2]
     /\ PutsOf(r1) # {} /\ PutPending(r1)
     /\ PutsOf(r2) = {} /\ Count(r2, "caught") = 1 /\ Count(r2, "get") = 1
     /\ AnsweredAsMiss(r1) /\ response[r1] = response[r2]

\* ---------------------------------------------------------------------- C13

\* C13: every request the handler was called with is eventually answered,
\* whatever path it takes, provided each store operation, body read and origin
\* fetch it waits for completes or fails; a request has a response exactly when
\* it is answered, and the response it was answered with never changes: exactly
\* one response is produced.
C13_AlwaysReturned ==
  /\ \A r \in Reqs : Started(r) ~> Returned(r)
  /\ [][\A r \in Reqs :
          /\ (response'[r] # Null) <=> Returned(r)'
          /\ response[r] # Null => response'[r] = response[r]]_vars

\* A request failed to read the store, was answered by the origin and stored
\* the response; another found that entry expired and was answered 502.
C13_Witness ==
  \E r1, r2 \in Reqs :
     /\ Returned(r1) /\ ReadFailed(r1) /\ PutsOf(r1) # {} /\ AnsweredAsMiss(r1)
     /\ Returned(r2) /\ Count(r2, "delete") = 1 /\ AnsweredBadGateway(r2)

\* ---------------------------------------------------------------------- C14

\* The response of r is a 500 the proxy made itself: a 500 that was not handed
\* through from the origin (which carries the MISS overlay).
Proxy500(r) ==
  /\ Returned(r)
  /\ response[r][1].status = 500
  /\ Returns(r, "x-cache-status") = Null

\* C14: the proxy answers with a 500 of its own exactly when the origin base
\* URL or the store binding is missing; it then answers at once, with a plain
\* description, having built no key, issued no store operation and contacted no
\* origin; and a request that met a store failure or an origin-connection
\* failure is never answered with a 500 of the proxy.
C14_ConfigError ==
  \A r \in Reqs :
     /\ Started(r) /\ ~ConfigPresent => Returned(r)
     /\ Returned(r) =>
          /\ Proxy500(r) <=> ~ConfigPresent
          /\ ~ConfigPresent
               => /\ cacheKey[r] = "" /\ log[r] = <<>>
                  /\ \A t \in pending : t.req # r
                  /\ originResponse[r] = Null /\ object[r] = Null
                  /\ response[r][1].body \in
                       {Some("Origin API URL not configured"), Some("R2 Bucket not bound")}
          /\ Count(r, "caught") + Count(r, "threw") > 0 => ~Proxy500(r)

\* With the bucket unbound a request was answered 500 without a key, a store
\* operation or an origin contact.
C14_Witness ==
  \E r \in Reqs :
     /\ Proxy500(r) /\ ~env.API_CACHE_BUCKET /\ env.ORIGIN_API_URL # Null
     /\ response[r][1].body = Some("R2 Bucket not bound")
     /\ cacheKey[r] = "" /\ log[r] = <<>>

\* ---------------------------------------------------------------------- C15

\* The N of a cf-cache-control "max-age=N" that parses as a positive integer,
\* else Null.
RequestMaxAge(q) ==
  IF /\ "cf-cache-control" \in DOMAIN q.headers
     /\ startsWith(q.headers["cf-cache-control"], "max-age=")
  THEN LET n == parseInt(SubSeq(q.headers["cf-cache-control"], 9,
                                Len(q.headers["cf-cache-control"])))
       IN  IF n # Null /\ n[1] > 0 THEN n ELSE Null
  ELSE Null

\* The N of a "max-age=N" directive of the response's Cache-Control, else Null.
ResponseMaxAge(resp) ==
  IF "cache-control" \in DOMAIN resp.headers
  THEN LET m == matchMaxAge(toLowerCase(resp.headers["cache-control"]))
       IN  IF m = Null THEN Null ELSE parseInt(m[1])
  ELSE Null

\* The TTL as the rule states it.
StatedTtl(q, resp) ==
  IF RequestMaxAge(q) # Null THEN RequestMaxAge(q)[1]
  ELSE IF ResponseMaxAge(resp) # Null THEN ResponseMaxAge(resp)[1]
  ELSE DEFAULT_CACHE_TTL_SECONDS

\* C15: the entry a request hands to put expires TTL seconds after the put,
\* the TTL being the N of the request's cf-cache-control max-age=N when that
\* parses as a positive integer, else the N of the response's Cache-Control
\* max-age=N when present, else the default.
C15_TtlRule ==
  \A r \in Reqs :
     \A p \in PutsOf(r) :
        ExpirationMs(p.entry)
          = p.at + StatedTtl(request[r][1], originResponse[r][1]) * 1000

\* ---------------------------------------------------------------------- C16

\* The origin response of r was selected for storage: the handler entered the
\* storage block, where it reads the response copy and hands the entry to put.
Selected(r) ==
  \/ pc[r] = "text"
  \/ PutsOf(r) # {}
  \/ \E i \in LogOps(r, "caught") : log[r][i].key = "text"

\* The conditions of storage, as the rule states them.
Storable(q, resp) ==
  /\ q.method \in {"GET", "POST"} \/ ForceRequested(q)
  /\ resp.status >= 200 /\ resp.status < 300
  /\ ~ForbidsStorage(resp)
  /\ ~BypassRequested(q)

\* C16: an origin response is selected for storage if and only if (the method
\* is GET or POST, or the request carries force-cache) and the status is in
\* [200,300) and neither Cache-Control (no-cache, no-store) nor Pragma
\* (no-cache) forbids it, case-insensitively, and the request did not ask for
\* bypass; a selected response whose copy is read is handed to put exactly
\* once, and in every other case no put is issued.
C16_StoredIff ==
  \A r \in Reqs :
     originResponse[r] # Null
       => /\ LET storable == Storable(request[r][1], originResponse[r][1])
             IN  /\ Selected(r) <=> storable
                 /\ ~storable => Count(r, "put") = 0 /\ ~PutPending(r)
          /\ Selected(r) /\ Returned(r)
               => Count(r, "put") + Cardinality({i \in LogOps(r, "caught") :
                                                   log[r][i].key = "text"}) = 1

\* Two PUTs got the same 201 from the origin: the one carrying force-cache
\* handed it to put, the other did not.
C16_Witness ==
  \E r1, r2 \in Reqs :
     /\ Returned(r1) /\ Returned(r2)
     /\ request[r1][1].method = "PUT" /\ request[r2][1].method = "PUT"
     /\ ForceRequested(request[r1][1]) /\ ~ForceRequested(request[r2][1])
     /\ originResponse[r1] = originResponse[r2]
     /\ originResponse[r1] # Null /\ originResponse[r1][1].status = 201
     /\ Count(r1, "put") = 1 /\ Count(r2, "put") = 0

\* ---------------------------------------------------------------------- C17

\* C17: a store get is issued for a request, once, if and only if its method
\* is GET or POST and it did not ask for bypass; a request with another method
\* is never served from the cache, also when it carries force-cache and an
\* entry stored under its own key exists.
C17_LookupIff ==
  \A r \in Reqs :
     Started(r) =>
       /\ pc[r] = "get" => LookupEligible(request[r][1]) /\ Count(r, "get") = 0
       /\ pc[r] # "get" /\ ConfigPresent
            => Count(r, "get") = IF LookupEligible(request[r][1]) THEN 1 ELSE 0
       /\ ~ConfigPresent => Count(r, "get") = 0
       /\ Served(r) = 1 => Count(r, "get") = 1
       /\ request[r][1].method \notin {"GET", "POST"}
            => Served(r) = 0 /\ object[r] = Null /\ Count(r, "get") = 0

\* A PUT carrying force-cache was answered by the origin, without a get, while
\* the store held an unexpired entry under its own key.
C17_Witness ==
  \E r \in Reqs :
     /\ Returned(r) /\ request[r][1].method = "PUT" /\ ForceRequested(request[r][1])
     /\ Count(r, "get") = 0 /\ Served(r) = 0 /\ Forwarded(r) = 1
     /\ Count(r, "put") = 0
     /\ cacheKey[r] \in DOMAIN store
     /\ now <= ExpirationMs(store[cacheKey[r]])

\* ---------------------------------------------------------------------- C18

\* C18: a request carrying the bypass directive issues no get, no put and no
\* delete and hands nothing to ctx.waitUntil, whatever the origin returns; no
\* step of its handler changes the store or the operations pending on it.
C18_BypassNoStoreOps ==
  [][\A r \in Reqs :
       (Started(r)' /\ BypassRequested(request'[r][1]))
         => /\ Count(r, "get")' = 0 /\ Count(r, "put")' = 0 /\ Count(r, "delete")' = 0
            /\ \A t \in pending' : t.req # r
            /\ pc'[r] # pc[r] => store' = store /\ pending' = pending]_vars

\* A bypassing request got a storable 200 from the origin and was answered
\* while the store held an expired entry under its key: no put, no delete.
C18_Witness ==
  \E r \in Reqs :
     /\ Returned(r) /\ BypassRequested(request[r][1])
     /\ AnsweredAsMiss(r)
     /\ originResponse[r][1].status = 200 /\ ~ForbidsStorage(originResponse[r][1])
     /\ cacheKey[r] \in DOMAIN store
     /\ ExpirationMs(store[cacheKey[r]]) < now
     /\ log[r] = <<log[r][1], log[r][2]>>
     /\ log[r][1].op = "fetch" /\ log[r][2].op = "final"

\* ---------------------------------------------------------------------- C19

\* C19 as stated: within one request, the put is initiated only after the
\* response to return to the caller has been built.
C19_Original ==
  \A r \in Reqs :
     \A i \in LogOps(r, "put") : \E k \in LogOps(r, "final") : k < i

\* C19, amended: within one request on the miss path, the put is initiated
\* after the origin's response has been received (and copied) and before the
\* response returned to the caller (its headers with the MISS overlay, and the
\* Response itself) is built; the response is built right after, and returned
\* while the put is pending.
C19_PutBeforeFinal ==
  \A r \in Reqs :
     \A i \in LogOps(r, "put") :
        /\ originResponse[r] # Null
        /\ \E j \in LogOps(r, "fetch") : j < i
        /\ \A k \in LogOps(r, "final") : i < k
        /\ Returned(r) /\ i + 1 \in LogOps(r, "final")
        /\ AnsweredAsMiss(r)

\* A request that missed handed its entry to put and then built and returned
\* its response, the put still pending.
C19_Witness ==
  \E r \in Reqs :
     /\ Returned(r) /\ PutPending(r) /\ AnsweredAsMiss(r)
     /\ Count(r, "get") = 1 /\ object[r] = Null
     /\ \E i \in LogOps(r, "put") : i + 1 \in LogOps(r, "final")

\* ---------------------------------------------------------------------- C20

\* C20: a delete issued because a lookup found an expired entry, when it takes
\* effect, removes only an entry that has expired, never an unexpired entry a
\* put has written under the key since.
C20_DeleteOnlyExpired ==
  [][\A t \in pending :
       (t.op = "delete" /\ DeleteDone(t) /\ t.key \in DOMAIN store)
         => ExpirationMs(store[t.key]) < now]_vars

\* ---------------------------------------------------------------------- C21

\* Two requests with the same method, URL, body and cf-cache-control header:
\* they differ, if at all, in their other headers only.
SameButHeaders(q1, q2) ==
  /\ q1.method = q2.method /\ q1.url = q2.url /\ q1.body = q2.body
  /\ Directive(q1) = Directive(q2)

\* C21: two lookup-eligible requests that differ only in request headers other
\* than cf-cache-control (credentials, for example) get the same cache key, and
\* the response stored for one is served to the other: a lookup of the other
\* that returns the stored entry, and reads it, before its expiration answers
\* with the stored status, headers and body and the HIT overlay; two requests
\* served the same stored object get the same response.
C21_HitIgnoresHeaders ==
  /\ [](\A r1, r2 \in Reqs :
          ( /\ KeyBuilt(r1) /\ KeyBuilt(r2)
            /\ LookupEligible(request[r1][1]) /\ LookupEligible(request[r2][1])
            /\ SameButHeaders(request[r1][1], request[r2][1]) )
          => /\ cacheKey[r1] = cacheKey[r2]
             /\ ( /\ Served(r1) = 1 /\ Served(r2) = 1
                  /\ \E i \in LogOps(r1, "hit") : \E j \in LogOps(r2, "hit") :
                        log[r1][i].value = log[r2][j].value )
                  => response[r1] = response[r2])
  /\ [][\A r1, r2 \in Reqs :
          \A p \in PutsOf(r1) :
             ( /\ r1 # r2
               /\ pc[r2] = "json" /\ pc'[r2] # "json" /\ ~CacheJsonError(r2)
               /\ LookupEligible(request[r2][1])
               /\ SameButHeaders(request[r1][1], request[r2][1])
               /\ object[r2] = Some(p.entry)
               /\ now <= ExpirationMs(p.entry) )
             => /\ Returned(r2)' /\ Served(r2)' = 1 /\ Forwarded(r2)' = 0
                /\ ServesStored(r2, originResponse[r1][1])']_vars

\* The response of a POST sent without credentials was stored and then served,
\* with HIT, to a POST of the same URL and body that carries credentials.
C21_Witness ==
  \E r1, r2 \in Reqs :
     /\ r1 # r2 /\ Returned(r1) /\ Returned(r2)
     /\ request[r1][1].method = "POST" /\ request[r1][1].body = Body("a")
     /\ SameButHeaders(request[r1][1], request[r2][1])
     /\ request[r1][1].headers = NoHeaders
     /\ "authorization" \in DOMAIN request[r2][1].headers
     /\ ServedEntryOf(r1, r2)
     /\ ServesStored(r2, originResponse[r1][1])

\* ---------------------------------------------------------------------- C22

\* The headers handleRequestHeaders of src/cloudflare_cache.js sets on the
\* outbound request.
InjectedHeaders == {"ocp-apim-subscription-region", "ocp-apim-subscription-key"}

\* The outbound requests of the two implementations agree but for the injected
\* headers.
SameOutbound(a, b) ==
  /\ a.url = b.url /\ a.method = b.method /\ a.body = b.body
  /\ DOMAIN a.headers \ InjectedHeaders = DOMAIN b.headers \ InjectedHeaders
  /\ \A n \in DOMAIN a.headers \ InjectedHeaders : a.headers[n] = b.headers[n]

\* Two puts agree: the same time, the same stored value, and the same
\* expiration unless the TTL of the first is the default of its implementation,
\* the TTL of the second then being the default of the other.
SamePut(p1, p2) ==
  /\ p1.at = p2.at
  /\ p1.entry.value = p2.entry.value
  /\ IF ExpirationMs(p1.entry) - p1.at = DEFAULT_CACHE_TTL_SECONDS * 1000
     THEN ExpirationMs(p2.entry) - p2.at = DEFAULT_CACHE_TTL_SECONDS_part000 * 1000
     ELSE ExpirationMs(p1.entry) = ExpirationMs(p2.entry)

\* Two logged operations agree: the same operation on the same key, and the
\* same object served resp. agreeing puts.
SameOperation(a, b) ==
  /\ a.op = b.op
  /\ a.key = b.key
  /\ IF a.op = "put" THEN SamePut(a.value[1], b.value[1]) ELSE a.value = b.value

\* The store operations request r handed to ctx.waitUntil, without expiration.
Handed(r) ==
  {[op |-> t.op, key |-> t.key,
    value |-> IF t.value = Null THEN "" ELSE t.value[1].value] :
     t \in {u \in pending : u.req = r}}

\* C22: handling the same request with the same bindings, store contents, clock
\* and origin behaviour, src/cloudflare_cache.js (handler 1) and
\* src/unnamed/part_000 (handler 2) stand at the same place after the same
\* number of steps, with the same cache key, the same object read, the same
\* hit/miss decision, the same store and origin operations in the same order
\* (the expirations of puts equal unless the TTL is the default), outbound
\* requests that agree outside the injected headers, and the same response.
C22_Equivalent ==
  (InSync /\ Started(1)) =>
     /\ request[1] = request[2]
     /\ pc[1] = pc[2]
     /\ cacheKey[1] = cacheKey[2]
     /\ object[1] = object[2]
     /\ originResponse[1] = originResponse[2]
     /\ response[1] = response[2]
     /\ Served(1) = Served(2)
     /\ \A i \in 1..Len(log[1]) : SameOperation(log[1][i], log[2][i])
     /\ Handed(1) = Handed(2)
     /\ (ConfigPresent =>
           SameOutbound(originRequest(env, request[1][1]),
                        originRequest_part000(env, request[2][1])))

\* Both implementations answered a request whose cf-cache-control max-age=1
\* overrides the max-age of the response: both forwarded it, put entries
\* expiring a second later and returned the same response.
C22_Witness ==
  /\ Returned(1) /\ Returned(2)
  /\ Forwarded(1) = 1 /\ Forwarded(2) = 1
  /\ request[1] = Some(Req("GET", UrlW, Body(""), CfCc("max-age=1")))
  /\ originResponse[2] = Some(Resp(200, CC("max-age=2"), Some("x")))
  /\ \E p \in PutsOf(1) : ExpirationMs(p.entry) = p.at + 1000
  /\ \E p \in PutsOf(2) : ExpirationMs(p.entry) = p.at + 1000
  /\ response[2] # Null /\ response[1] = response[2]

====
